---- MODULE Spec2Model ----
(***************************************************************************)
(* proc-cmdline: parse(cmdline) of src/lib.rs as a state machine.          *)
(*                                                                         *)
(* The tokenizer loop (lib.rs 35-39) calls parse_start / parse_value       *)
(* through the function slot `func`; each call is one action.  The pair    *)
(* assembler (lib.rs 41-61) consumes one token per action and flushes the  *)
(* pending name at the end.  `param.unwrap()` on an empty slot (lib.rs 53) *)
(* is the state pc = "panic".                                              *)
(*                                                                         *)
(* Bytes are their integer values.  Option<T> is a sequence of length 0    *)
(* (None) or 1 (Some).                                                     *)
(***************************************************************************)
EXTENDS Integers, Sequences, FiniteSets

VARIABLES
    cmdline,    \* the input slice, never modified
    pos,        \* bytes consumed from the peekable iterator `iter`
    token,      \* Vec<Token> filled by the tokenizer
    func,       \* the function slot: "parse_start", "parse_value" or "none"
    in_quote,   \* local in_quote of the last parse_* call, at its return
    has_value,  \* local has_value of the last parse_start call, at its return
    calls,      \* number of calls made by the tokenizer loop so far
    pc,         \* "tokenize", "assemble", "done" or "panic"
    t,          \* index of the next token of the assembler's for loop
    param,      \* the assembler's pending name, Option<Vec<u8>>
    result      \* Vec<CmdlineParam>

vars == <<cmdline, pos, token, func, in_quote, has_value, calls, pc, t, param, result>>

---------------------------------------------------------------------------
(* Bounds of the model *)

\* longest input of the exhaustive input set
MaxLen == 5
\* longest name / value of the quoted input set
MaxWord == 2
\* longest whitespace run of the word-list input set
MaxRun == 2

---------------------------------------------------------------------------
(* Bytes *)

QUOTE == 34
EQ == 61
SP == 32
FF == 12
NL == 10
CR == 13
TAB == 9
VT == 11
ByteA == 97
ByteB == 98

\* the largest u8
ByteMax == 255

isspaceNoVT(c) ==
    IF c = SP THEN TRUE
    ELSE IF c = FF THEN TRUE
    ELSE IF c = NL THEN TRUE
    ELSE IF c = CR THEN TRUE
    ELSE IF c = TAB THEN TRUE
    ELSE FALSE

isspace(c) ==
    IF c = SP THEN TRUE
    ELSE IF c = FF THEN TRUE
    ELSE IF c = NL THEN TRUE
    ELSE IF c = CR THEN TRUE
    ELSE IF c = TAB THEN TRUE
    ELSE IF c = VT THEN TRUE
    ELSE FALSE

---------------------------------------------------------------------------
(* Data *)

None == <<>>
Some(v) == <<v>>

Name(p) == [kind |-> "Name", bytes |-> p]
Value(v) == [kind |-> "Value", bytes |-> v]

CmdlineParam(n, v) == [name |-> n, value |-> v]

---------------------------------------------------------------------------
(* parse_start *)

\* the branch of the if / else-if chain taken for byte c with quote flag q
StartByteQuotedEq(c, q) ==
    IF c = EQ /\ ~q THEN "eq"
    ELSE IF isspace(c) /\ ~q THEN "space"
    ELSE IF c = QUOTE THEN "quote"
    ELSE "push"

StartByte(c, q) ==
    IF c = EQ THEN "eq"
    ELSE IF isspace(c) /\ ~q THEN "space"
    ELSE IF c = QUOTE THEN "quote"
    ELSE "push"

\* the loop with the terminating whitespace peeked at and left unread
RECURSIVE StartLoopSpaceUnread(_, _, _, _)
StartLoopSpaceUnread(s, i, q, buf) ==
    IF i >= Len(s)
    THEN [pos |-> i, in_quote |-> q, has_value |-> FALSE, param |-> buf]
    ELSE LET c == s[i + 1]
             b == StartByte(c, q)
         IN  IF b = "eq"
             THEN [pos |-> i + 1, in_quote |-> q, has_value |-> TRUE, param |-> buf]
             ELSE IF b = "space"
             THEN [pos |-> i, in_quote |-> q, has_value |-> FALSE, param |-> buf]
             ELSE IF b = "quote"
             THEN StartLoopSpaceUnread(s, i + 1, ~q, buf)
             ELSE StartLoopSpaceUnread(s, i + 1, q, Append(buf, c))

\* for &c in chars { ... }: i bytes are consumed, q is in_quote, buf is param
RECURSIVE StartLoop(_, _, _, _)
StartLoop(s, i, q, buf) ==
    IF i >= Len(s)
    THEN [pos |-> i, in_quote |-> q, has_value |-> FALSE, param |-> buf]
    ELSE LET c == s[i + 1]
             b == StartByte(c, q)
         IN  IF b = "eq"
             THEN [pos |-> i + 1, in_quote |-> q, has_value |-> TRUE, param |-> buf]
             ELSE IF b = "space"
             THEN [pos |-> i + 1, in_quote |-> q, has_value |-> FALSE, param |-> buf]
             ELSE IF b = "quote"
             THEN StartLoop(s, i + 1, ~q, buf)
             ELSE StartLoop(s, i + 1, q, Append(buf, c))

\* if !param.is_empty() { token.push(Token::Name(param)) }
EmitNameAlways(tok, p) == Append(tok, Name(p))

EmitName(tok, p) == IF p # <<>> THEN Append(tok, Name(p)) ELSE tok

\* if has_value { Some(parse_value) } else { Some(parse_start) }
NextFn(hv) == IF hv THEN "parse_value" ELSE "parse_start"

parse_start(s, i, tok) ==
    IF i >= Len(s)
    THEN [func |-> "none", pos |-> i, token |-> tok,
          in_quote |-> FALSE, has_value |-> FALSE]
    ELSE LET q0 == (s[i + 1] = QUOTE)
             i0 == IF q0 THEN i + 1 ELSE i
             r  == StartLoop(s, i0, q0, <<>>)
         IN  [func |-> NextFn(r.has_value), pos |-> r.pos,
              token |-> EmitName(tok, r.param),
              in_quote |-> r.in_quote, has_value |-> r.has_value]

---------------------------------------------------------------------------
(* parse_value *)

ValueByteSpaceInQuote(c, q) ==
    IF isspace(c) THEN "space"
    ELSE IF c = QUOTE THEN "quote"
    ELSE "push"

ValueBytePushQuote(c, q) ==
    IF isspace(c) /\ ~q THEN "space"
    ELSE "push"

ValueByteEqEnds(c, q) ==
    IF (isspace(c) \/ c = EQ) /\ ~q THEN "space"
    ELSE IF c = QUOTE THEN "quote"
    ELSE "push"

ValueByte(c, q) ==
    IF isspace(c) /\ ~q THEN "space"
    ELSE IF c = QUOTE THEN "quote"
    ELSE "push"

RECURSIVE ValueLoop(_, _, _, _)
ValueLoop(s, i, q, buf) ==
    IF i >= Len(s)
    THEN [pos |-> i, in_quote |-> q, value |-> buf]
    ELSE LET c == s[i + 1]
             b == ValueByte(c, q)
         IN  IF b = "space"
             THEN [pos |-> i + 1, in_quote |-> q, value |-> buf]
             ELSE IF b = "quote"
             THEN ValueLoop(s, i + 1, ~q, buf)
             ELSE ValueLoop(s, i + 1, q, Append(buf, c))

\* token.push(Token::Value(value))
EmitValueNonEmpty(tok, v) == IF v # <<>> THEN Append(tok, Value(v)) ELSE tok

EmitValue(tok, v) == Append(tok, Value(v))

parse_value(s, i, tok) ==
    LET r == ValueLoop(s, i, FALSE, <<>>)
    IN  [func |-> "parse_start", pos |-> r.pos,
         token |-> EmitValue(tok, r.value),
         in_quote |-> r.in_quote, has_value |-> FALSE]

---------------------------------------------------------------------------
(* the pair assembler of parse *)

\* Token::Name(p) => { if let Some(param) = param { push((param, None)) } Some(p) }
OnNameNoFlush(st, p) ==
    [param |-> Some(p), result |-> st.result, panicked |-> FALSE]

OnName(st, p) ==
    [param |-> Some(p),
     result |-> IF st.param # None
                THEN Append(st.result, CmdlineParam(st.param[1], None))
                ELSE st.result,
     panicked |-> FALSE]

\* Token::Value(v) => { push((param.unwrap(), Some(v))); None }
OnValue(st, v) ==
    IF st.param = None
    THEN [param |-> None, result |-> st.result, panicked |-> TRUE]
    ELSE [param |-> None,
          result |-> Append(st.result, CmdlineParam(st.param[1], Some(v))),
          panicked |-> FALSE]

\* if let Some(param) = param { result.push((param, None)) }
FlushOrDefault(st) ==
    Append(st.result, CmdlineParam(IF st.param # None THEN st.param[1] ELSE <<>>, None))

Flush(st) ==
    IF st.param # None
    THEN Append(st.result, CmdlineParam(st.param[1], None))
    ELSE st.result

---------------------------------------------------------------------------
(* Inputs *)

SeqsUpTo(S, n) == UNION {[1..k -> S] : k \in 0..n}

Alphabet == {SP, TAB, QUOTE, EQ, ByteA, ByteB}

\* bytes that are neither a quote nor '='
Plain == {SP, TAB, ByteA, ByteB}

Quote(b) == <<QUOTE>> \o b \o <<QUOTE>>

\* "N"  and  "N"="V"
QuotedInputs ==
    LET Ns == SeqsUpTo(Plain, MaxWord) \ {<<>>}
        Vs == SeqsUpTo(Plain, MaxWord)
    IN  {Quote(n) : n \in Ns}
        \cup {Quote(n) \o <<EQ>> \o Quote(v) : n \in Ns, v \in Vs}

Run(c, n) == [i \in 1..n |-> c]

\* two words between and around whitespace runs
WordInputs ==
    LET Pads == {Run(c, n) : c \in {SP, TAB}, n \in 0..MaxRun}
        Gaps == {Run(c, n) : c \in {SP, TAB}, n \in 1..MaxRun}
        Ws   == {<<ByteA>>, <<ByteB, ByteA>>}
    IN  {p1 \o w1 \o g \o w2 \o p2 :
            p1 \in Pads, w1 \in Ws, g \in Gaps, w2 \in Ws, p2 \in Pads}

\* two parameters, each a name or name=value with quoted spans, '=' in the
\* value and unbalanced quotes, separated by whitespace
SegmentInputs ==
    LET Ns   == {<<ByteA>>, Quote(<<ByteA, SP, ByteB>>), <<ByteB, QUOTE, TAB, QUOTE>>}
        Vs   == {<<>>, <<ByteB>>, Quote(<<SP>>), <<ByteB, EQ, QUOTE, SP, ByteA, QUOTE>>,
                 <<QUOTE, ByteB>>}
        Segs == Ns \cup {n \o <<EQ>> \o v : n \in Ns, v \in Vs}
    IN  {x \o g \o y : x \in Segs, g \in {<<SP>>, <<TAB, SP>>}, y \in Segs}

Inputs == SeqsUpTo(Alphabet, MaxLen) \cup QuotedInputs \cup WordInputs \cup SegmentInputs

---------------------------------------------------------------------------
(* The state machine *)

Init ==
    /\ cmdline \in Inputs
    /\ pos = 0
    /\ token = <<>>
    /\ func = "parse_start"
    /\ in_quote = FALSE
    /\ has_value = FALSE
    /\ calls = 0
    /\ pc = "tokenize"
    /\ t = 1
    /\ param = None
    /\ result = <<>>

\* func = f.0(&mut iter, &mut token); the loop ends when it returns None
Call(r) ==
    /\ func' = r.func
    /\ pos' = r.pos
    /\ token' = r.token
    /\ in_quote' = r.in_quote
    /\ has_value' = r.has_value
    /\ calls' = calls + 1
    /\ pc' = IF r.func = "none" THEN "assemble" ELSE "tokenize"
    /\ UNCHANGED <<cmdline, t, param, result>>

CallParseStart ==
    /\ pc = "tokenize"
    /\ func = "parse_start"
    /\ Call(parse_start(cmdline, pos, token))

CallParseValue ==
    /\ pc = "tokenize"
    /\ func = "parse_value"
    /\ Call(parse_value(cmdline, pos, token))

AsmState == [param |-> param, result |-> result, panicked |-> FALSE]

ForName ==
    /\ pc = "assemble"
    /\ t <= Len(token)
    /\ token[t].kind = "Name"
    /\ LET st == OnName(AsmState, token[t].bytes)
       IN  /\ param' = st.param
           /\ result' = st.result
    /\ t' = t + 1
    /\ UNCHANGED <<cmdline, pos, token, func, in_quote, has_value, calls, pc>>

ForValue ==
    /\ pc = "assemble"
    /\ t <= Len(token)
    /\ token[t].kind = "Value"
    /\ LET st == OnValue(AsmState, token[t].bytes)
       IN  /\ param' = st.param
           /\ result' = st.result
           /\ pc' = IF st.panicked THEN "panic" ELSE "assemble"
    /\ t' = t + 1
    /\ UNCHANGED <<cmdline, pos, token, func, in_quote, has_value, calls>>

Return ==
    /\ pc = "assemble"
    /\ t > Len(token)
    /\ result' = Flush(AsmState)
    /\ pc' = "done"
    /\ UNCHANGED <<cmdline, pos, token, func, in_quote, has_value, calls, t, param>>

Next ==
    \/ CallParseStart
    \/ CallParseValue
    \/ ForName
    \/ ForValue
    \/ Return

Spec == Init /\ [][Next]_vars

---------------------------------------------------------------------------
(* parse as a function of its input *)

RECURSIVE Tokenize(_, _, _, _)
Tokenize(s, f, i, tok) ==
    IF f = "none" THEN tok
    ELSE LET r == IF f = "parse_start" THEN parse_start(s, i, tok)
                  ELSE parse_value(s, i, tok)
         IN  Tokenize(s, r.func, r.pos, r.token)

RECURSIVE Assemble(_, _, _)
Assemble(tok, k, st) ==
    IF st.panicked THEN [ok |-> FALSE, result |-> st.result]
    ELSE IF k > Len(tok) THEN [ok |-> TRUE, result |-> Flush(st)]
    ELSE Assemble(tok, k + 1,
                  IF tok[k].kind = "Name" THEN OnName(st, tok[k].bytes)
                  ELSE OnValue(st, tok[k].bytes))

parse(s) ==
    Assemble(Tokenize(s, "parse_start", 0, <<>>), 1,
             [param |-> None, result |-> <<>>, panicked |-> FALSE])

---------------------------------------------------------------------------
(* Helpers of the properties *)

HasByte(b, c) == \E i \in 1..Len(b) : b[i] = c

HasSpace(b) == \E i \in 1..Len(b) : isspace(b[i])

IsName(tk) == tk.kind = "Name"

IsValue(tk) == tk.kind = "Value"

NotQuote(c) == c # QUOTE

Min(S) == CHOOSE x \in S : \A y \in S : x <= y

\* parse has returned its result
Returned == pc = "done"

---------------------------------------------------------------------------
(* C1 *)

\* C1: parse is total: for every input it returns a result and never panics;
\* the unwrap of the pending name on a Value token never meets an empty slot.
C1_ParseNeverPanics == pc # "panic"

---------------------------------------------------------------------------
(* C2 *)

\* C2: every pair of the result has a non-empty name: the name scan emits no
\* Name token with an empty buffer, and every name of the result is the
\* bytes of a Name token.
C2_NamesNonEmpty ==
    /\ \A k \in 1..Len(token) : IsName(token[k]) => token[k].bytes # <<>>
    /\ \A k \in 1..Len(result) :
          /\ result[k].name # <<>>
          /\ \E j \in 1..Len(token) : token[j] = Name(result[k].name)

\* a returned parse of an input with an empty name scan (a whitespace run or
\* an empty quoted span) that still produced a pair
C2_Witness ==
    /\ Returned
    /\ Len(result) >= 1
    /\ calls > Len(token) + 1
    /\ \E i \in 1..(Len(cmdline) - 1) : cmdline[i] = QUOTE /\ cmdline[i + 1] = QUOTE

---------------------------------------------------------------------------
(* C3 *)

\* C3: in the name scan an '=' is the name terminator only while the quote
\* flag is off: whenever parse_start returns with has_value set, its quote
\* flag is off, and the quoted name "a=b" is the single name a=b.
C3_EqInsideQuotesIsContent ==
    /\ has_value => ~in_quote
    /\ (Returned /\ cmdline = <<QUOTE, ByteA, EQ, ByteB, QUOTE>>)
          => result = <<CmdlineParam(<<ByteA, EQ, ByteB>>, None)>>

---------------------------------------------------------------------------
(* C4 *)

AllPlain(b) == \A i \in 1..Len(b) : b[i] # QUOTE /\ b[i] # EQ

\* s is "N" for a non-empty N of non-quote, non-'=' bytes
IsQuotedName(s) ==
    /\ Len(s) >= 3
    /\ s[1] = QUOTE
    /\ s[Len(s)] = QUOTE
    /\ AllPlain(SubSeq(s, 2, Len(s) - 1))

\* s is "N"="V" with the '=' at index k
IsQuotedPairAt(s, k) ==
    /\ k >= 4
    /\ k + 2 <= Len(s)
    /\ s[k] = EQ
    /\ s[1] = QUOTE
    /\ s[k - 1] = QUOTE
    /\ s[k + 1] = QUOTE
    /\ s[Len(s)] = QUOTE
    /\ AllPlain(SubSeq(s, 2, k - 2))
    /\ AllPlain(SubSeq(s, k + 2, Len(s) - 1))

\* C4: whitespace inside quotes does not end a name or a value and is kept:
\* the input "N" parses to the single pair (N, None) and the input "N"="V"
\* to the single pair (N, Some(V)), for N non-empty and N, V free of quote
\* and '=' bytes, whitespace allowed.
C4_QuotedWhitespaceKept ==
    /\ IsQuotedName(cmdline) =>
          /\ pc # "panic"
          /\ Returned =>
                result = <<CmdlineParam(SubSeq(cmdline, 2, Len(cmdline) - 1), None)>>
    /\ \A k \in 1..Len(cmdline) :
          IsQuotedPairAt(cmdline, k) =>
             /\ pc # "panic"
             /\ Returned =>
                   result = <<CmdlineParam(SubSeq(cmdline, 2, k - 2),
                                 Some(SubSeq(cmdline, k + 2, Len(cmdline) - 1)))>>

\* "N"="V" was parsed, with whitespace in both N and V
C4_Witness ==
    /\ Returned
    /\ \E k \in 1..Len(cmdline) : IsQuotedPairAt(cmdline, k)
    /\ Len(result) = 1
    /\ HasSpace(result[1].name)
    /\ result[1].value # None
    /\ HasSpace(result[1].value[1])

---------------------------------------------------------------------------
(* C5 *)

\* C5: quote bytes are structural only: no token, no name and no value of the
\* result holds the byte '"'.
C5_NoQuoteInResult ==
    /\ \A k \in 1..Len(token) : ~HasByte(token[k].bytes, QUOTE)
    /\ \A k \in 1..Len(result) :
          /\ ~HasByte(result[k].name, QUOTE)
          /\ result[k].value # None => ~HasByte(result[k].value[1], QUOTE)

\* a returned parse whose input has quote bytes in a name and in a value
C5_Witness ==
    /\ Returned
    /\ \E k \in 1..Len(result) : result[k].value # None /\ result[k].value[1] # <<>>
    /\ \E i, j, m \in 1..Len(cmdline) :
          i < j /\ j < m /\ cmdline[i] = QUOTE /\ cmdline[j] = EQ /\ cmdline[m] = QUOTE

---------------------------------------------------------------------------
(* C6 *)

\* a name or value is wrapped in quotes when it holds whitespace
Quoted(b) == IF HasSpace(b) THEN Quote(b) ELSE b

SerialisePair(p) ==
    IF p.value = None
    THEN Quoted(p.name)
    ELSE Quoted(p.name) \o <<EQ>> \o Quoted(p.value[1])

RECURSIVE Serialise(_)
Serialise(R) ==
    IF R = <<>> THEN <<>>
    ELSE IF Len(R) = 1 THEN SerialisePair(R[1])
    ELSE SerialisePair(R[1]) \o <<SP>> \o Serialise(Tail(R))

\* C6: round trip: when parse returns R, writing each pair of R as name or
\* name=value (quoted when it holds whitespace), joined by single spaces, and
\* parsing that text returns R again.
C6_RoundTrip ==
    Returned => parse(Serialise(result)) = [ok |-> TRUE, result |-> result]

\* a returned parse of several pairs, one written with quotes, whose text
\* differs from the input
C6_Witness ==
    /\ Returned
    /\ Len(result) >= 2
    /\ \E k \in 1..Len(result) : result[k].value # None /\ HasSpace(result[k].value[1])
    /\ Serialise(result) # cmdline

---------------------------------------------------------------------------
(* C7 *)

\* indexes where a maximal run of non-whitespace bytes starts
WordStarts(s) ==
    {i \in 1..Len(s) : ~isspace(s[i]) /\ (i = 1 \/ isspace(s[i - 1]))}

WordEnd(s, i) ==
    Min({j \in i..Len(s) : j = Len(s) \/ isspace(s[j + 1])})

Rank(S, i) == Cardinality({j \in S : j <= i})

\* C7: an input of k words without '=', '"' and whitespace, separated and
\* surrounded by whitespace runs of any length, parses to exactly the k
\* pairs (word_i, None) in input order.
C7_WordsToNames ==
    (~HasByte(cmdline, EQ) /\ ~HasByte(cmdline, QUOTE)) =>
        /\ pc # "panic"
        /\ Returned =>
              /\ Len(result) = Cardinality(WordStarts(cmdline))
              /\ \A i \in WordStarts(cmdline) :
                    result[Rank(WordStarts(cmdline), i)] =
                       CmdlineParam(SubSeq(cmdline, i, WordEnd(cmdline, i)), None)

\* two words with leading and trailing whitespace and a run of two between
C7_Witness ==
    /\ Returned
    /\ ~HasByte(cmdline, EQ) /\ ~HasByte(cmdline, QUOTE)
    /\ Len(result) = 2
    /\ isspace(cmdline[1])
    /\ isspace(cmdline[Len(cmdline)])
    /\ \E i \in 2..(Len(cmdline) - 2) :
          /\ ~isspace(cmdline[i - 1])
          /\ isspace(cmdline[i]) /\ isspace(cmdline[i + 1])

---------------------------------------------------------------------------
(* C8 *)

\* indexes after i consumed bytes where an unquoted whitespace byte stands,
\* quotes counted from the start of the value
ValueStops(s, i) ==
    {j \in (i + 1)..Len(s) :
        /\ isspace(s[j])
        /\ Cardinality({m \in (i + 1)..(j - 1) : s[m] = QUOTE}) % 2 = 0}

\* index of the byte that ends the value, Len(s) + 1 at end of input
ValueStop(s, i) ==
    IF ValueStops(s, i) = {} THEN Len(s) + 1 ELSE Min(ValueStops(s, i))

\* the bytes up to the next unquoted whitespace or end of input, quotes removed
ValueText(s, i) == SelectSeq(SubSeq(s, i + 1, ValueStop(s, i) - 1), NotQuote)

NamesUpTo(tok, k) == Cardinality({j \in 1..k : IsName(tok[j])})

\* every call of parse_value pushes Value(v), v the bytes up to the next
\* unquoted whitespace or end of input without the quote bytes, and hands
\* over to parse_start
C8_ValueStep ==
    (pc = "tokenize" /\ func = "parse_value") =>
        /\ has_value
        /\ token' = Append(token, Value(ValueText(cmdline, pos)))
        /\ func' = "parse_start"
        /\ pos' = IF ValueStop(cmdline, pos) > Len(cmdline)
                  THEN Len(cmdline) ELSE ValueStop(cmdline, pos)

\* a name scan ended by '=' hands over to parse_value at the byte after the
\* '=', with its Name token, when the buffer is not empty, pushed last
C8_NameStep ==
    (pc = "tokenize" /\ func = "parse_start" /\ has_value') =>
        /\ func' = "parse_value"
        /\ cmdline[pos'] = EQ
        /\ token' # token => (Len(token') = Len(token) + 1 /\ IsName(token'[Len(token')]))

\* in the result a Name token followed by a Value token is the pair
\* (name, Some(value)), never (name, None)
C8_PairHasValue ==
    Returned =>
        \A k \in 1..(Len(token) - 1) :
            (IsName(token[k]) /\ IsValue(token[k + 1])) =>
                result[NamesUpTo(token, k)] =
                    CmdlineParam(token[k].bytes, Some(token[k + 1].bytes))

\* C8: a non-empty name scan ended by '=' always gets the pair
\* (name, Some(v)), v the bytes up to the next unquoted whitespace or end of
\* input without the quote bytes; v is empty, and the value is never None,
\* when a separator, end of input or only quote bytes follow the '='.
C8_ValueAlwaysEmitted ==
    /\ [][C8_ValueStep /\ C8_NameStep]_vars
    /\ [](C8_PairHasValue)

\* name= followed by a separator, and name= followed by quote bytes only,
\* both returned with Some(empty)
C8_Witness ==
    /\ Returned
    /\ Len(result) >= 2
    /\ result[1].value = Some(<<>>)
    /\ \E i \in 2..(Len(cmdline) - 1) :
          /\ cmdline[i] = EQ
          /\ ~isspace(cmdline[i - 1])
          /\ isspace(cmdline[i + 1])
          /\ NamesUpTo(token, Len(token)) = 2

---------------------------------------------------------------------------
(* C9 *)

\* C9: parsing the empty input gives the empty result: the first call of
\* parse_start finds the end of input, pushes no token and ends the
\* tokenizer, and the assembler flushes nothing.
C9_EmptyInput ==
    cmdline = <<>> =>
        /\ token = <<>>
        /\ result = <<>>
        /\ calls <= 1
        /\ calls = 1 => func = "none"
        /\ pc \in {"tokenize", "assemble", "done"}
        /\ pc = "tokenize" <=> calls = 0

\* the parse of the empty input has returned
C9_Witness == Returned /\ cmdline = <<>> /\ calls = 1

---------------------------------------------------------------------------
(* C10 *)

\* C10: the result has exactly one pair per Name token, the i-th pair named
\* by the i-th Name token; a name still pending at the end of the tokens is
\* flushed as the last pair, with None.
C10_OnePairPerName ==
    Returned =>
        LET names == SelectSeq(token, IsName)
        IN  /\ Len(result) = Len(names)
            /\ \A i \in 1..Len(names) : result[i].name = names[i].bytes
            /\ (token # <<>> /\ IsName(token[Len(token)])) =>
                  result[Len(result)] = CmdlineParam(token[Len(token)].bytes, None)

\* a returned parse of a name with a value and a later name, flushed at the end
C10_Witness ==
    /\ Returned
    /\ Len(SelectSeq(token, IsName)) >= 2
    /\ Len(SelectSeq(token, IsValue)) >= 1
    /\ IsName(token[Len(token)])
    /\ result[1].name # result[2].name

---------------------------------------------------------------------------
(* C11 *)

\* every byte value between two letters, in a name and in a value
ByteInputs ==
    {<<ByteA, c, ByteB>> : c \in 0..ByteMax}
        \cup {<<ByteA, EQ, ByteB, c, ByteA>> : c \in 0..ByteMax}

InitBytes ==
    /\ cmdline \in ByteInputs
    /\ pos = 0
    /\ token = <<>>
    /\ func = "parse_start"
    /\ in_quote = FALSE
    /\ has_value = FALSE
    /\ calls = 0
    /\ pc = "tokenize"
    /\ t = 1
    /\ param = None
    /\ result = <<>>

\* parse run on the inputs of ByteInputs
SpecBytes == InitBytes /\ [][Next]_vars

SixSpaces == {32, 12, 10, 13, 9, 11}

\* the byte of the input that is varied over all byte values
VariedByte == cmdline[Len(cmdline) - 1]

\* C11: the whitespace classifier is true for exactly the six bytes 0x20,
\* 0x0C, 0x0A, 0x0D, 0x09 and 0x0B and false for the other 250; only these
\* six separate tokens: a byte between two letters splits them into two
\* parameters, after a name and after a value, exactly when it is one of the
\* six.
C11_SixWhitespaceBytes ==
    /\ isspace(VariedByte) <=> VariedByte \in SixSpaces
    /\ Cardinality({c \in 0..ByteMax : isspace(c)}) = 6
    /\ Returned =>
          (Len(result) = 2 /\ result[2].value = None) <=> VariedByte \in SixSpaces

\* the vertical tab has split a name from the next one
C11_Witness ==
    /\ Returned
    /\ cmdline = <<ByteA, 11, ByteB>>
    /\ result = <<CmdlineParam(<<ByteA>>, None), CmdlineParam(<<ByteB>>, None)>>

---------------------------------------------------------------------------
(* C12 *)

\* C12: in every token sequence of the tokenizer each Value token comes
\* right after a Name token, so the assembler's pending name is set whenever
\* it takes a Value token, also after a name scan that saw '=' with an
\* empty buffer.
C12_ValueAfterName ==
    /\ \A k \in 1..Len(token) :
          IsValue(token[k]) => (k > 1 /\ IsName(token[k - 1]))
    /\ (pc = "assemble" /\ t <= Len(token) /\ IsValue(token[t])) => param # None

---------------------------------------------------------------------------
(* C13 *)

IsStop(c) == isspace(c) \/ c = EQ \/ c = QUOTE

\* index of the first whitespace, '=' or quote byte of s, Len(s) + 1 if none
FirstStop(s) ==
    IF \E j \in 1..Len(s) : IsStop(s[j])
    THEN Min({j \in 1..Len(s) : IsStop(s[j])})
    ELSE Len(s) + 1

\* the input starts with a word that whitespace or the end of input ends
FirstNameEndsAtSpace(s) ==
    /\ FirstStop(s) > 1
    /\ FirstStop(s) <= Len(s) => isspace(s[FirstStop(s)])

\* C13: a name whose scan was ended by unquoted whitespace or by the end of
\* input has no value, whatever follows the separator; stated for the first
\* name of the input: its pair is (name, None).
C13_NameEndedBySpaceHasNone ==
    (Returned /\ FirstNameEndsAtSpace(cmdline)) =>
        /\ result # <<>>
        /\ result[1] = CmdlineParam(SubSeq(cmdline, 1, FirstStop(cmdline) - 1), None)

---------------------------------------------------------------------------
(* C14 *)

CountEq(b) == Cardinality({i \in 1..Len(b) : b[i] = EQ})

\* a call of parse_value pushes one Value token that holds every '=' byte
\* the call has read
C14_ValueStep ==
    (pc = "tokenize" /\ func = "parse_value") =>
        /\ Len(token') = Len(token) + 1
        /\ IsValue(token'[Len(token')])
        /\ CountEq(token'[Len(token')].bytes) = CountEq(SubSeq(cmdline, pos + 1, pos'))

\* s is name=rest, the name and rest free of whitespace and quotes, the name
\* free of '=', with the first '=' at index k
IsNameEqRestAt(s, k) ==
    /\ k > 1
    /\ k <= Len(s)
    /\ s[k] = EQ
    /\ \A i \in 1..(k - 1) : ~IsStop(s[i])
    /\ \A i \in (k + 1)..Len(s) : ~isspace(s[i]) /\ s[i] # QUOTE

\* the input name=rest is the single pair (name, Some(rest)), whatever '='
\* bytes rest holds
C14_EqInValue ==
    Returned =>
        \A k \in 1..Len(cmdline) :
            IsNameEqRestAt(cmdline, k) =>
                result = <<CmdlineParam(SubSeq(cmdline, 1, k - 1),
                              Some(SubSeq(cmdline, k + 1, Len(cmdline))))>>

\* C14: in the value scan '=' has no special meaning: every '=' read there,
\* quoted or not, is appended to the value and neither ends it nor starts a
\* token, so name=a=b is the single pair (name, Some(a=b)).
C14_EqIsValueContent ==
    /\ [][C14_ValueStep]_vars
    /\ [](C14_EqInValue)

\* an input name=rest with '=' bytes in rest was parsed to one pair
C14_Witness ==
    /\ Returned
    /\ \E k \in 1..Len(cmdline) : IsNameEqRestAt(cmdline, k)
    /\ Len(result) = 1
    /\ result[1].value # None
    /\ CountEq(result[1].value[1]) >= 1
    /\ Len(result[1].value[1]) >= 3

---------------------------------------------------------------------------
(* C15 *)

\* C15: unbalanced quotes are accepted in both modes: a token with an odd
\* number of quote bytes is scanned with the quote flag on to the end of
\* input, the whitespace after the quote being content, and is emitted
\* there: a scan that returns with the quote flag on has consumed the whole
\* input, and "a b=a with a leading quote only is the single name a b=a.
C15_OpenQuoteRunsToEnd ==
    /\ in_quote => pos = Len(cmdline)
    /\ (Returned /\ cmdline = <<QUOTE, ByteA, SP, EQ, ByteA>>)
          => result = <<CmdlineParam(<<ByteA, SP, EQ, ByteA>>, None)>>

---------------------------------------------------------------------------
(* C16 *)

\* longest input of the exhaustive input set of the fair specification
MaxFairLen == 3

InitFair ==
    /\ cmdline \in SeqsUpTo(Alphabet, MaxFairLen) \cup SegmentInputs
    /\ pos = 0
    /\ token = <<>>
    /\ func = "parse_start"
    /\ in_quote = FALSE
    /\ has_value = FALSE
    /\ calls = 0
    /\ pc = "tokenize"
    /\ t = 1
    /\ param = None
    /\ result = <<>>

\* parse is sequential code: a step that can be taken is taken
FairSpec == InitFair /\ [][Next]_vars /\ WF_vars(Next)

\* what is left of the tokenizer loop: bytes to read, then the mode
Variant ==
    IF func = "none" THEN 0
    ELSE 2 * (Len(cmdline) - pos) + (IF func = "parse_value" THEN 2 ELSE 1)

\* one call of the tokenizer loop
C16_Step ==
    pc = "tokenize" =>
        /\ pos' >= pos
        /\ pos' <= Len(cmdline)
        /\ (func = "parse_start" /\ pos < Len(cmdline)) => pos' > pos
        /\ func = "parse_value" => func' = "parse_start"
        /\ func' = "none" <=> (func = "parse_start" /\ pos = Len(cmdline))
        /\ Variant' < Variant
        /\ calls' = calls + 1

\* the loop runs while a function is in the slot, and it ends with the
\* whole input read
C16_Loop ==
    /\ pc = "tokenize" <=> func # "none"
    /\ pc = "tokenize" => ENABLED (CallParseStart \/ CallParseValue)
    /\ func = "none" => pos = Len(cmdline)
    /\ calls <= 2 * Len(cmdline) + 1

\* C16: the tokenizer loop ends on every input after one forward pass: the
\* cursor never moves back, a name scan that starts before the end of input
\* reads at least one byte, at most one value scan runs between two name
\* scans, and the loop stops exactly when a name scan starts at the end of
\* input.
C16_TokenizerTerminates ==
    /\ [][C16_Step]_vars
    /\ [](C16_Loop)
    /\ <>(func = "none")

\* the loop has ended after name and value scans, the last value scan
\* starting at the end of input and reading nothing
C16_Witness ==
    /\ func = "none"
    /\ pc = "assemble"
    /\ calls >= 5
    /\ cmdline[Len(cmdline)] = EQ
    /\ IsValue(token[Len(token)])
    /\ token[Len(token)].bytes = <<>>
    /\ Len(token) >= 3

---------------------------------------------------------------------------
(* C17 *)

\* C17: mode ordering: the scanner starts with a name scan, a value scan is
\* in the slot only right after a name scan that '=' ended, and a value
\* scan hands back to the name scan; hence the token sequence never holds
\* two Value tokens in a row.
C17_ModeOrdering ==
    /\ calls = 0 => func = "parse_start"
    /\ func = "parse_value" => (has_value /\ pos >= 1 /\ cmdline[pos] = EQ)
    /\ \A k \in 1..(Len(token) - 1) : ~(IsValue(token[k]) /\ IsValue(token[k + 1]))

---------------------------------------------------------------------------
(* C18 *)

\* C18: no name of the result holds the byte '=': no Name token and no
\* pair's name contains it, an '=' appears in values only.
C18_NoEqInNames ==
    /\ \A k \in 1..Len(token) : IsName(token[k]) => ~HasByte(token[k].bytes, EQ)
    /\ \A k \in 1..Len(result) : ~HasByte(result[k].name, EQ)

\* a returned parse of a quoted name with an '=' inside the quotes, and a
\* value that holds an '='
C18_Witness ==
    /\ Returned
    /\ Len(cmdline) >= 4
    /\ cmdline[1] = QUOTE
    /\ cmdline[2] # QUOTE /\ cmdline[2] # EQ
    /\ cmdline[3] = EQ
    /\ Len(result) >= 1
    /\ result[1].name = <<cmdline[2]>>
    /\ result[1].value # None
    /\ HasByte(result[1].value[1], EQ)

====
